---------------------------- MODULE Spec2Model ----------------------------
(***************************************************************************)
(* Playlist / playback state machine of the MP3 player.                    *)
(*                                                                         *)
(* The repository holds several player implementations side by side.      *)
(* Each one is modelled from its own source; the variable impl, fixed at   *)
(* start, says which one a behaviour follows:                              *)
(*   "hook"  useAudioPlayer         src/components/PlaylistManager.js:451  *)
(*   "page"  Home (track + index)   src/pages/index.js:7                   *)
(*   "home"  Home (index only)      src/unnamed/part_000:8                 *)
(*   "manager"  PlaylistManager     src/components/PlaylistManager.js:5    *)
(* Indices are 0-based as in the code; At(s, i) reads s[i] of the code.    *)
(*                                                                         *)
(* The hook and part_000 drive an HTML audio element (audio); what the     *)
(* element does on load, play, pause and at the end of a track is modelled *)
(* where the code calls it. React effects are part of the action whose     *)
(* state change triggers them.                                             *)
(***************************************************************************)
EXTENDS Integers, Sequences, FiniteSets, TLC

VARIABLES
    impl,               \* which implementation runs
    mounted,            \* the mount effects (startup load) have run
    playlist,           \* useState([]) : sequence of tracks
    currentTrack,       \* useState(null) : hook and page only
    currentTrackIndex,  \* useState(0) : currentTrackIndex / currentIndex
    isPlaying,          \* useState(false) : hook and home only
    storage,            \* the localStorage record of the playlist
    now,                \* Date.now()
    urls,               \* number of object URLs created by URL.createObjectURL
    revoked,            \* per object URL, how often URL.revokeObjectURL got it
    gone,               \* tracks that left the playlist (remove / clear)
    audio,              \* the audio element behind audioRef
    currentTime,        \* useState(0) : the position shown
    volume,             \* useState(1) : in tenths
    error,              \* useState(null) : hook only
    thrown,             \* an exception left a handler or an effect uncaught
    full,               \* localStorage.setItem throws (quota exceeded)
    isUploading,        \* useState(false) : PlaylistManager only
    validated,          \* the last file given to validateAudioFile, its result
    restarts,           \* how often the page was loaded anew
    previous,           \* the playlist when the session before this one ended
    uploads,            \* the calls of handleFileUpload that await metadata
    computed,           \* the last call of an index utility, with its result
    last                \* the last operation and the state it started from

vars == <<impl, mounted, playlist, currentTrack, currentTrackIndex, isPlaying,
          storage, now, urls, revoked, gone, audio, currentTime, volume, error,
          thrown, full, isUploading, validated, restarts, previous, uploads,
          computed, last>>

\* What only PlaylistManager, validateAudioFile and a reload of the page touch
apart == <<isUploading, validated, restarts, previous, uploads, computed>>

-----------------------------------------------------------------------------
(* Bounds of the model *)

MaxUrls == 3        \* object URLs created in one session
MaxBatch == 2       \* files handed over in one upload
MaxClock == 3       \* last value of Date.now()
MaxUnderflow == 2   \* how far below 0 a broken index is followed
RandRange == 2      \* distinct outcomes of Math.random() within one tick
TrackDuration == 2  \* audio.duration of a loaded track, in steps of playback
MaxRestarts == 1    \* reloads of the page
MaxUploads == 2     \* calls of handleFileUpload in flight at once
MaxLength == 3      \* tracks of a playlist given to an index utility

-----------------------------------------------------------------------------
(* Values *)

Impls == {"hook", "page", "home"}

\* null / undefined where a track is expected
NoTrack == [id |-> -1, url |-> 0]

Track(id, url) == [id |-> id, url |-> url]

\* Tracks written by an earlier session: their object URLs (url < 0) are
\* strings of that session, never handles of this one.
Stored1 == Track(1, -1)
Stored2 == Track(2, -2)

\* Date.now() when the session starts: the earlier session stamped its last
\* batch one tick before, so that its second id is the tick of this start.
InitClock == Stored2.id

Missing == [kind |-> "missing", tracks |-> <<>>]
Malformed == [kind |-> "malformed", tracks |-> <<>>]
Array(s) == [kind |-> "array", tracks |-> s]

InitialStorage ==
    {Missing, Malformed, Array(<<>>), Array(<<Stored1>>), Array(<<Stored1, Stored2>>)}

\* An element of a stored array that is no track: {} has neither id nor url
\* (id -2 stands for its undefined id), and is truthy.
EmptyObject == [id |-> -2, url |-> 0]

\* What JSON.parse can find under the key, arrays of other things included
LoadableStorage == InitialStorage \cup {Array(<<EmptyObject>>)}

\* The 1 of Math.min(1, newVolume): volumes are counted in tenths
One == 10

\* Levels handed to changeVolume, and the stops of the range input of
\* part_000 (min 0, max 1)
Levels == {-5, 0, 5, One, 17}
SliderLevels == {0, 5, One}

\* useState(null) for error, and the two messages the hook sets
NoError == "none"
FailedToLoad == "Failed to load audio file"
FailedToPlay == "Failed to play audio"

\* The files of an upload, by what the MP3 filter of part_000 reads of them.
Files == [mime : {"audio/mpeg", "text/plain"}, ext : {".mp3", ".txt"}]

Batches == UNION {[1..n -> Files] : n \in 0..MaxBatch}

\* maxSize = 50 * 1024 * 1024, counted in MB
MaxSize == 50

\* const audioTypes = [...]
AudioTypes ==
    {"audio/mpeg", "audio/mp3", "audio/wav", "audio/ogg", "audio/aac",
     "audio/flac", "audio/m4a", "audio/webm"}

\* The files handed to PlaylistManager and to validateAudioFile, by what the
\* code reads of them: file.type (empty when the browser knows none), the end
\* of file.name, file.size, and whether an audio element gets 'loadedmetadata'
\* from the file (loads) or 'error'.
Mimes == {"", "audio/mpeg", "audio/x-aiff", "text/plain"}
AudioFiles ==
    [mime : Mimes, ext : {".mp3", ".txt"}, size : {MaxSize, MaxSize + 1},
     loads : BOOLEAN]

\* The files of a drop on PlaylistManager, which reads neither name nor size
DroppedFiles == {f \in AudioFiles : f.ext = ".mp3" /\ f.size = MaxSize}
Drops == UNION {[1..n -> DroppedFiles] : n \in 0..MaxBatch}

\* The files of the uploads that are followed step by step
UploadedFiles == {f \in DroppedFiles : f.mime = "audio/mpeg" \/ (f.mime = "text/plain" /\ f.loads)}
UploadedBatches == UNION {[1..n -> UploadedFiles] : n \in 0..MaxBatch}

\* What validateAudioFile resolves with, and the state before any call
Result(ok, message) == [valid |-> ok, error |-> message]
InvalidFormat == Result(FALSE, "Invalid audio file format")
TooLarge == Result(FALSE, "File too large (max 50MB)")
CouldNotLoad == Result(FALSE, "Could not load audio file")
Valid == Result(TRUE, "null")
NotValidated ==
    [file |-> [mime |-> "none", ext |-> "none", size |-> 0, loads |-> FALSE],
     result |-> Result(FALSE, "none")]


\* The playlist argument of the index utilities: an array, or null/undefined
GivenPlaylist(s) == [given |-> TRUE, tracks |-> s]
NoPlaylist == [given |-> FALSE, tracks |-> <<>>]
Playlists ==
    {NoPlaylist} \cup {GivenPlaylist([i \in 1..n |-> Track(i, i)]) : n \in 0..MaxLength}

\* The index argument: the indexes of the longest playlist and some outside
Indexes == (-MaxUnderflow)..(MaxLength + 1)

\* The repeatMode argument: the three modes, another string, and none given
RepeatModes == {"none", "one", "all", "shuffle", "undefined"}

\* The state before any call of an index utility
NotComputed ==
    [fn |-> "none", currentIndex |-> 0, playlist |-> NoPlaylist,
     repeatMode |-> "undefined", result |-> 0]

-----------------------------------------------------------------------------
(* Array helpers, 0-based as in the code *)

At(s, i) == IF i >= 0 /\ i < Len(s) THEN s[i + 1] ELSE NoTrack

Min(a, b) == IF a <= b THEN a ELSE b

\* a % n of JavaScript: the sign follows the dividend
JsRem(a, n) == IF a >= 0 THEN a % n ELSE -((-a) % n)

\* prev.findIndex(track => track.id === id)
FindIndex(s, id) ==
    IF \E i \in 1..Len(s) : s[i].id = id
        THEN (CHOOSE i \in 1..Len(s) :
                 s[i].id = id /\ \A j \in 1..(i - 1) : s[j].id # id) - 1
        ELSE -1

\* prev.filter(track => track.id !== id)
FilterId(s, id) == SelectSeq(s, LAMBDA t : t.id # id)

\* playlist.filter((_, i) => i !== index)
FilterIndex(s, index) ==
    [i \in 1..(Len(s) - (IF index >= 0 /\ index < Len(s) THEN 1 ELSE 0)) |->
        IF i <= index THEN s[i] ELSE s[i + 1]]

Elems(s) == {s[i] : i \in 1..Len(s)}

Ids(s) == {s[i].id : i \in 1..Len(s)}

Truthy(t) == t # NoTrack

Max(a, b) == IF a >= b THEN a ELSE b

\* A volume handed on as it came
Unclamped(v) == v

\* Math.max(0, Math.min(1, newVolume))
Clamp01(v) == Max(0, Min(One, v))

-----------------------------------------------------------------------------
(* The audio element *)

\* new Audio(), or no element: nothing loaded, paused, volume 1. ended is
\* the source whose end has queued an 'ended' event not yet delivered (0:
\* none), failed says that an 'error' event is queued. promise is the promise
\* that play() returned: "none" once it is settled, "pending" while the
\* element holds it until it has data to play, "resolving" and "rejecting"
\* once the element has taken it and queued the task that settles it.
NoAudio ==
    [src |-> 0, paused |-> TRUE, time |-> 0, volume |-> One, ended |-> 0,
     failed |-> FALSE, promise |-> "none"]

\* The element takes its pending play promises to reject them (AbortError);
\* a promise it took before stays with the task that settles it.
Aborted(promise) == IF promise = "pending" THEN "rejecting" ELSE promise

\* An object URL of this session that was not revoked; the URL strings of an
\* earlier session (url < 0) and a missing url (0) load nothing.
Playable(url) == url >= 1 /\ revoked[url] = 0

\* Seconds the element can play of its source
Duration(a) == IF Playable(a.src) THEN TrackDuration ELSE 0

\* A load that pauses and rewinds but leaves the queued events in place
LoadKeepingEvents(a, url) ==
    [a EXCEPT !.src = url, !.paused = TRUE, !.time = 0]

\* audio.src = url, a changed src attribute, audio.load(): the element
\* pauses, goes back to 0 and drops the events it had queued; a source that
\* cannot be fetched queues 'error'. A play promise still pending is
\* rejected; one whose settling was queued is settled as queued.
Load(a, url) ==
    [a EXCEPT !.src = url, !.paused = TRUE, !.time = 0, !.ended = 0,
              !.failed = (url # 0 /\ ~Playable(url)),
              !.promise = Aborted(a.promise)]

\* audio.play(): the promise is rejected when the source cannot be played;
\* playback that had reached the end starts over.
Play(a) ==
    IF Playable(a.src)
        THEN [a EXCEPT !.paused = FALSE,
                       !.time = IF a.time = TrackDuration THEN 0 ELSE a.time]
        ELSE a

\* audio.pause(): a playing element pauses and rejects its pending play
\* promises
Pause(a) ==
    [a EXCEPT !.paused = TRUE,
              !.promise = IF a.paused THEN a.promise ELSE Aborted(a.promise)]

\* audio.play() up to the promise it returns. ready: the element has data to
\* play at once and queues the task that resolves the promise; otherwise the
\* promise waits for the data. With a source that cannot be played the
\* promise is rejected.
PlayStarts(a, ready) ==
    IF Playable(a.src)
        THEN [Play(a) EXCEPT !.promise = IF ready THEN "resolving" ELSE "pending"]
        ELSE [a EXCEPT !.promise = "rejecting"]

\* audio.currentTime = t: the element seeks within what it has loaded; with
\* nothing loaded the position it reports stays where it is.
SetCurrentTime(a, t) ==
    IF Playable(a.src) THEN [a EXCEPT !.time = Max(0, Min(t, TrackDuration))] ELSE a

\* Playback moves on by one step; at the end of the source the element
\* pauses and queues 'ended'.
Advance(a) ==
    IF a.time + 1 >= TrackDuration
        THEN [a EXCEPT !.time = TrackDuration, !.paused = TRUE, !.ended = a.src]
        ELSE [a EXCEPT !.time = a.time + 1]


-----------------------------------------------------------------------------
(* The record of the last operation *)

\* The current track: state of its own in the hook and in pages/index.js,
\* playlist[currentTrackIndex] in part_000.
CurrentTrack ==
    IF impl = "home" THEN At(playlist, currentTrackIndex) ELSE currentTrack

\* A save effect that writes whatever the playlist is
Overwritten(pl) == Array(pl)

\* The save effect: if (playlist.length > 0) localStorage.setItem(...); a
\* setItem that throws writes nothing.
HookSaved(pl) == IF Len(pl) > 0 /\ ~full THEN Array(pl) ELSE storage

\* The save effect: try { localStorage.setItem(...) } catch { console.error }
PageSaved(pl) == IF full THEN storage ELSE Array(pl)

\* The save effect of pages/index.js in a render whose isLoading is as given:
\* if (!isLoading) { ... setItem ... }
PageSaveEffect(isLoading, pl) == IF ~isLoading THEN PageSaved(pl) ELSE storage

\* The stored record after the effects of the first commit: the load effect
\* has read the record and called the setters, the save effect runs with the
\* state of the first render (the useState defaults: playlist [], isLoading
\* true). PlaylistManager has no save effect.
FirstCommit ==
    IF impl \in {"hook", "home"} THEN HookSaved(playlist)
    ELSE IF impl = "page" THEN PageSaveEffect(TRUE, playlist)
    ELSE storage

\* The operation op, its arguments (-1, 0 and NoTrack where it has none) and
\* the playlist, current index and current track it started from, with
\* isPlaying, the source of the audio element, the 'ended' event it had
\* queued, the position shown, the stored record, the state of the storage
\* quota, whether the component was mounted, the error shown, and, for the
\* operations that should leave playback alone, whether the element was
\* paused and where it stood; for a load, the stored record as the first
\* commit left it, before the loaded playlist was rendered.
Framed == {"volume", "add", "remove"}

Op(op, id, index, n, track) ==
    [op |-> op, id |-> id, index |-> index, n |-> n, track |-> track,
     playlist |-> playlist, currentIndex |-> currentTrackIndex,
     current |-> CurrentTrack, urls |-> urls, playing |-> isPlaying,
     src |-> audio.src, pending |-> audio.ended, time |-> currentTime,
     stored |-> storage, full |-> full, mounted |-> mounted, error |-> error,
     paused |-> IF op \in Framed THEN audio.paused ELSE TRUE,
     position |-> IF op \in Framed THEN audio.time ELSE 0,
     early |-> IF op = "load" THEN FirstCommit ELSE Missing]

-----------------------------------------------------------------------------
(* Construction: the useState defaults, before any effect has run *)

Start(impls, stored) ==
    /\ impl \in impls
    /\ mounted = FALSE
    /\ playlist = <<>>
    /\ currentTrack = NoTrack
    /\ currentTrackIndex = 0
    /\ isPlaying = FALSE
    /\ storage \in stored
    /\ now = InitClock
    /\ urls = 0
    /\ revoked = [u \in 1..MaxUrls |-> 0]
    /\ gone = {}
    /\ audio = NoAudio
    /\ currentTime = 0
    /\ volume = One
    /\ error = NoError
    /\ thrown = FALSE
    /\ full = FALSE
    /\ isUploading = FALSE
    /\ validated = NotValidated
    /\ restarts = 0
    /\ previous = <<>>
    /\ uploads = <<>>
    /\ computed = NotComputed
    /\ last = Op("init", -1, -1, 0, NoTrack)

InitWith(stored) == Start(Impls, stored)

Init == InitWith(InitialStorage)

\* URL.revokeObjectURL(track.url) for every track of s; the strings of an
\* earlier session are no handles and revoking them does nothing.
RevokeAll(s) ==
    [u \in 1..MaxUrls |-> revoked[u] + Cardinality({i \in 1..Len(s) : s[i].url = u})]

\* Date.now() moves on between two events
Tick ==
    /\ now < MaxClock
    /\ now' = now + 1
    /\ UNCHANGED <<impl, mounted, playlist, currentTrack, currentTrackIndex,
                   isPlaying, storage, urls, revoked, gone, audio, currentTime,
                   volume, error, thrown, full, last>>
    /\ UNCHANGED apart

-----------------------------------------------------------------------------
(* useAudioPlayer *)

\* What follows a handler of the hook before the next event: the render and
\* the effects its state changes trigger. saves: setPlaylist was called, so
\* the save effect runs, and nothing catches what its setItem throws; a, e:
\* the audio element and the error as the handler left them. The source
\* effect (deps currentTrack, volume) sets audio.src and audio.volume and
\* clears the error. After an uncaught exception the component is gone.
HookEffects(saves, a, e) ==
    /\ ~thrown
    /\ thrown' = (saves /\ full /\ Len(playlist') > 0)
    /\ LET runs == Truthy(currentTrack')
                     /\ (currentTrack' # currentTrack \/ volume' # volume) IN
         /\ audio' = IF runs
                        THEN [Load(a, currentTrack'.url) EXCEPT
                                 !.volume = volume',
                                 !.failed = ~Playable(currentTrack'.url)]
                        ELSE a
         /\ error' = IF runs THEN NoError ELSE e
    /\ UNCHANGED full
    /\ UNCHANGED apart

\* The mount effects: load the stored playlist, then the save effect
HookLoad ==
    /\ impl = "hook" /\ ~mounted
    /\ last' = Op("load", -1, -1, 0, NoTrack)
    /\ mounted' = TRUE
    /\ IF storage.kind = "array"
          THEN /\ playlist' = storage.tracks
               /\ currentTrack' = IF Len(storage.tracks) > 0
                                     THEN storage.tracks[1] ELSE currentTrack
          ELSE UNCHANGED <<playlist, currentTrack>>
    /\ storage' = HookSaved(playlist')
    /\ UNCHANGED <<impl, currentTrackIndex, isPlaying, now, urls, revoked, gone>>
    /\ UNCHANGED <<volume, currentTime>>
    /\ HookEffects(storage.kind = "array", audio, error)

\* id: Date.now() + index, url: URL.createObjectURL(file)
StampedTracks(n) == [i \in 1..n |-> Track(now + (i - 1), urls + i)]

HookAddToPlaylist(n) ==
    /\ impl = "hook" /\ mounted
    /\ last' = Op("add", -1, -1, n, NoTrack)
    /\ urls + n <= MaxUrls
    /\ LET updated == playlist \o StampedTracks(n) IN
         /\ playlist' = updated
         /\ IF Len(playlist) = 0 /\ Len(updated) > 0
               THEN currentTrack' = updated[1] /\ currentTrackIndex' = 0
               ELSE UNCHANGED <<currentTrack, currentTrackIndex>>
         /\ storage' = HookSaved(updated)
    /\ urls' = urls + n
    /\ UNCHANGED <<impl, mounted, isPlaying, now, revoked, gone>>
    /\ UNCHANGED <<volume, currentTime>>
    /\ HookEffects(TRUE, audio, error)

HookRemoveFromPlaylist(trackId) ==
    /\ impl = "hook" /\ mounted
    /\ last' = Op("remove", trackId, -1, 0, NoTrack)
    /\ LET updated == FilterId(playlist, trackId)
           removedTrackIndex == FindIndex(playlist, trackId) IN
         /\ playlist' = updated
         /\ IF Truthy(currentTrack) /\ currentTrack.id = trackId
               THEN IF Len(updated) > 0
                       THEN LET newIndex == Min(removedTrackIndex, Len(updated) - 1) IN
                              /\ currentTrack' = At(updated, newIndex)
                              /\ currentTrackIndex' = newIndex
                       ELSE /\ currentTrack' = NoTrack
                            /\ currentTrackIndex' = 0
               ELSE IF removedTrackIndex < currentTrackIndex
                       THEN /\ currentTrackIndex' = currentTrackIndex - 1
                            /\ UNCHANGED currentTrack
                       ELSE UNCHANGED <<currentTrack, currentTrackIndex>>
         /\ storage' = HookSaved(updated)
         /\ gone' = gone \cup {t \in Elems(playlist) : t.id = trackId}
    /\ currentTrackIndex' >= -MaxUnderflow
    /\ UNCHANGED <<impl, mounted, isPlaying, now, urls, revoked>>
    /\ UNCHANGED <<volume, currentTime>>
    /\ HookEffects(TRUE, audio, error)

HookClearPlaylist ==
    /\ impl = "hook" /\ mounted
    /\ last' = Op("clear", -1, -1, 0, NoTrack)
    /\ playlist' = <<>>
    /\ currentTrack' = NoTrack
    /\ currentTrackIndex' = 0
    /\ isPlaying' = FALSE
    /\ storage' = Missing
    /\ gone' = gone \cup Elems(playlist)
    /\ UNCHANGED <<impl, mounted, now, urls, revoked>>
    /\ UNCHANGED <<volume, currentTime>>
    /\ HookEffects(FALSE, audio, error)

HookSelectTrack(track, index) ==
    /\ impl = "hook" /\ mounted
    /\ last' = Op("select", track.id, index, 0, track)
    /\ currentTrack' = track
    /\ currentTrackIndex' = index
    /\ isPlaying' = FALSE
    /\ UNCHANGED <<impl, mounted, playlist, storage, now, urls, revoked, gone>>
    /\ UNCHANGED <<volume, currentTime>>
    /\ HookEffects(FALSE, audio, error)

HookNextTrack ==
    /\ impl = "hook" /\ mounted
    /\ last' = Op("next", -1, -1, 0, NoTrack)
    /\ IF Len(playlist) = 0
          THEN UNCHANGED <<currentTrack, currentTrackIndex, isPlaying>>
          ELSE LET nextIndex == JsRem(currentTrackIndex + 1, Len(playlist)) IN
                 /\ currentTrackIndex' = nextIndex
                 /\ currentTrack' = At(playlist, nextIndex)
                 /\ isPlaying' = FALSE
    /\ UNCHANGED <<impl, mounted, playlist, storage, now, urls, revoked, gone>>
    /\ UNCHANGED <<volume, currentTime>>
    /\ HookEffects(FALSE, audio, error)

HookPreviousTrack ==
    /\ impl = "hook" /\ mounted
    /\ last' = Op("previous", -1, -1, 0, NoTrack)
    /\ IF Len(playlist) = 0
          THEN UNCHANGED <<currentTrack, currentTrackIndex, isPlaying>>
          ELSE LET prevIndex == IF currentTrackIndex = 0
                                   THEN Len(playlist) - 1
                                   ELSE currentTrackIndex - 1 IN
                 /\ prevIndex >= -MaxUnderflow
                 /\ currentTrackIndex' = prevIndex
                 /\ currentTrack' = At(playlist, prevIndex)
                 /\ isPlaying' = FALSE
    /\ UNCHANGED <<impl, mounted, playlist, storage, now, urls, revoked, gone>>
    /\ UNCHANGED <<volume, currentTime>>
    /\ HookEffects(FALSE, audio, error)

\* The playlist that nextTrack of the 'ended' listener reads: the listener
\* is built once (effect with deps []) around the nextTrack of the first
\* render, whose playlist is the useState default.
ListenerPlaylist == <<>>

UnchangedByPlayback ==
    UNCHANGED <<impl, mounted, playlist, storage, now, urls, revoked, gone>>

\* pause(): audio.pause(), isPlaying false. play(): nothing without a
\* current track; await audio.play(), then isPlaying true and error null,
\* or in the catch error 'Failed to play audio' and isPlaying false.
HookTogglePlayPause ==
    /\ impl = "hook" /\ mounted
    /\ last' = Op("toggle", -1, -1, 0, NoTrack)
    /\ UnchangedByPlayback
    /\ UNCHANGED <<currentTrack, currentTrackIndex, volume, currentTime>>
    /\ IF isPlaying
          THEN /\ isPlaying' = FALSE
               /\ HookEffects(FALSE, Pause(audio), error)
          ELSE IF ~Truthy(currentTrack)
                  THEN /\ UNCHANGED isPlaying
                       /\ HookEffects(FALSE, audio, error)
                  ELSE IF Playable(audio.src)
                          THEN /\ isPlaying' = TRUE
                               /\ HookEffects(FALSE, Play(audio), NoError)
                          ELSE /\ isPlaying' = FALSE
                               /\ HookEffects(FALSE, audio, FailedToPlay)

\* play() up to its await: nothing without a current track
HookPlay(ready) ==
    /\ impl = "hook" /\ mounted
    /\ audio.promise = "none"
    /\ last' = Op("play", -1, -1, 0, NoTrack)
    /\ UnchangedByPlayback
    /\ UNCHANGED <<currentTrack, currentTrackIndex, isPlaying, volume, currentTime>>
    /\ HookEffects(FALSE, IF Truthy(currentTrack) THEN PlayStarts(audio, ready) ELSE audio,
                   error)

\* The element gets the data it waited for: playback starts and the task that
\* resolves the pending play promise is queued
AudioCanPlay ==
    /\ impl = "hook" /\ mounted /\ ~thrown
    /\ audio.promise = "pending"
    /\ last' = Op("canplay", -1, -1, 0, NoTrack)
    /\ audio' = [audio EXCEPT !.promise = "resolving"]
    /\ UnchangedByPlayback
    /\ UNCHANGED <<currentTrack, currentTrackIndex, isPlaying, volume, currentTime,
                   error, thrown, full>>
    /\ UNCHANGED apart

\* play() after its await: setIsPlaying(true); setError(null), or what the
\* catch does
HookPlaySettles ==
    /\ impl = "hook" /\ mounted
    /\ audio.promise \in {"resolving", "rejecting"}
    /\ last' = Op("settled", -1, -1, 0, NoTrack)
    /\ UnchangedByPlayback
    /\ UNCHANGED <<currentTrack, currentTrackIndex, volume, currentTime>>
    /\ isPlaying' = (audio.promise = "resolving")
    /\ HookEffects(FALSE, [audio EXCEPT !.promise = "none"],
                   IF audio.promise = "resolving" THEN NoError ELSE FailedToPlay)

\* pause(): audio.pause(); setIsPlaying(false)
HookPause ==
    /\ impl = "hook" /\ mounted
    /\ last' = Op("pause", -1, -1, 0, NoTrack)
    /\ UnchangedByPlayback
    /\ UNCHANGED <<currentTrack, currentTrackIndex, volume, currentTime>>
    /\ isPlaying' = FALSE
    /\ HookEffects(FALSE, Pause(audio), error)

\* audio.currentTime = time; setCurrentTime(time)
HookSeek(time) ==
    /\ impl = "hook" /\ mounted
    /\ last' = Op("seek", -1, -1, time, NoTrack)
    /\ UnchangedByPlayback
    /\ UNCHANGED <<currentTrack, currentTrackIndex, isPlaying, volume>>
    /\ currentTime' = time
    /\ HookEffects(FALSE, SetCurrentTime(audio, time), error)

\* clampedVolume = Math.max(0, Math.min(1, newVolume)); setVolume;
\* audio.volume = clampedVolume
HookChangeVolume(newVolume) ==
    /\ impl = "hook" /\ mounted
    /\ last' = Op("volume", -1, -1, newVolume, NoTrack)
    /\ UnchangedByPlayback
    /\ UNCHANGED <<currentTrack, currentTrackIndex, isPlaying, currentTime>>
    /\ LET clampedVolume == Clamp01(newVolume) IN
         /\ volume' = clampedVolume
         /\ HookEffects(FALSE, [audio EXCEPT !.volume = clampedVolume], error)

\* 'ended' is delivered: setIsPlaying(false); nextTrack()
HookEnded ==
    /\ impl = "hook" /\ mounted
    /\ audio.ended # 0
    /\ last' = Op("ended", -1, -1, 0, NoTrack)
    /\ UnchangedByPlayback
    /\ UNCHANGED <<volume, currentTime>>
    /\ isPlaying' = FALSE
    /\ IF Len(ListenerPlaylist) = 0
          THEN UNCHANGED <<currentTrack, currentTrackIndex>>
          ELSE LET nextIndex == JsRem(0 + 1, Len(ListenerPlaylist)) IN
                 /\ currentTrackIndex' = nextIndex
                 /\ currentTrack' = At(ListenerPlaylist, nextIndex)
    /\ HookEffects(FALSE, [audio EXCEPT !.ended = 0], error)

\* 'timeupdate' is delivered: setCurrentTime(audio.currentTime)
HookTimeUpdate ==
    /\ impl = "hook" /\ mounted
    /\ currentTime # audio.time
    /\ last' = Op("timeupdate", -1, -1, 0, NoTrack)
    /\ UnchangedByPlayback
    /\ UNCHANGED <<currentTrack, currentTrackIndex, isPlaying, volume>>
    /\ currentTime' = audio.time
    /\ HookEffects(FALSE, audio, error)

\* 'error' is delivered: setError('Failed to load audio file')
HookAudioError ==
    /\ impl = "hook" /\ mounted
    /\ audio.failed
    /\ last' = Op("error", -1, -1, 0, NoTrack)
    /\ UnchangedByPlayback
    /\ UNCHANGED <<currentTrack, currentTrackIndex, isPlaying, volume, currentTime>>
    /\ HookEffects(FALSE, [audio EXCEPT !.failed = FALSE], FailedToLoad)

\* The component that uses the hook is unmounted: the cleanup of the audio
\* effect removes the six listeners and pauses the element; the state of the
\* hook is dropped with the component, the object URLs it created stay.
HookUnmount ==
    /\ impl = "hook" /\ mounted /\ ~thrown
    /\ restarts < MaxRestarts
    /\ last' = Op("unmount", -1, -1, 0, NoTrack)
    /\ restarts' = restarts + 1
    /\ mounted' = FALSE
    /\ playlist' = <<>>
    /\ currentTrack' = NoTrack
    /\ currentTrackIndex' = 0
    /\ isPlaying' = FALSE
    /\ gone' = {}
    /\ audio' = NoAudio
    /\ currentTime' = 0
    /\ volume' = One
    /\ error' = NoError
    /\ UNCHANGED <<impl, storage, now, urls, revoked, thrown, full, isUploading,
                   validated, previous, uploads, computed>>

-----------------------------------------------------------------------------
(* Home of pages/index.js: currentTrack and currentIndex *)

\* Home of pages/index.js holds no audio element and no playback state
PageEffects ==
    /\ ~thrown
    /\ UNCHANGED <<audio, currentTime, volume, error, thrown, full>>
    /\ UNCHANGED apart

\* The mount effect (isLoading ends), then the save effect, which writes
\* whenever isLoading is false.
PageLoad ==
    /\ impl = "page" /\ ~mounted
    /\ last' = Op("load", -1, -1, 0, NoTrack)
    /\ mounted' = TRUE
    /\ IF storage.kind = "array"
          THEN /\ playlist' = storage.tracks
               /\ currentTrack' = IF Len(storage.tracks) > 0
                                     THEN storage.tracks[1] ELSE currentTrack
               /\ currentTrackIndex' = IF Len(storage.tracks) > 0
                                          THEN 0 ELSE currentTrackIndex
          ELSE UNCHANGED <<playlist, currentTrack, currentTrackIndex>>
    /\ storage' = PageSaved(playlist')
    /\ UNCHANGED <<impl, isPlaying, now, urls, revoked, gone>>
    /\ PageEffects

PageAddToPlaylist(n) ==
    /\ impl = "page" /\ mounted
    /\ last' = Op("add", -1, -1, n, NoTrack)
    /\ urls + n <= MaxUrls
    /\ LET updated == playlist \o StampedTracks(n) IN
         /\ playlist' = updated
         /\ IF ~Truthy(currentTrack) /\ Len(updated) > 0
               THEN currentTrack' = updated[1] /\ currentTrackIndex' = 0
               ELSE UNCHANGED <<currentTrack, currentTrackIndex>>
         /\ storage' = PageSaved(updated)
    /\ urls' = urls + n
    /\ UNCHANGED <<impl, mounted, isPlaying, now, revoked, gone>>
    /\ PageEffects

PageRemoveFromPlaylist(trackId) ==
    /\ impl = "page" /\ mounted
    /\ last' = Op("remove", trackId, -1, 0, NoTrack)
    /\ LET updated == FilterId(playlist, trackId) IN
         /\ playlist' = updated
         /\ IF Truthy(currentTrack) /\ currentTrack.id = trackId
               THEN IF Len(updated) > 0
                       THEN LET newIndex == Min(currentTrackIndex, Len(updated) - 1) IN
                              /\ currentTrack' = At(updated, newIndex)
                              /\ currentTrackIndex' = newIndex
                       ELSE /\ currentTrack' = NoTrack
                            /\ currentTrackIndex' = 0
               ELSE IF Truthy(currentTrack)
                       THEN LET newIndex == FindIndex(updated, currentTrack.id) IN
                              /\ currentTrackIndex' = IF newIndex # -1
                                                         THEN newIndex
                                                         ELSE currentTrackIndex
                              /\ UNCHANGED currentTrack
                       ELSE UNCHANGED <<currentTrack, currentTrackIndex>>
         /\ storage' = PageSaved(updated)
         /\ gone' = gone \cup {t \in Elems(playlist) : t.id = trackId}
    /\ UNCHANGED <<impl, mounted, isPlaying, now, urls, revoked>>
    /\ PageEffects

PageSelectTrack(track) ==
    /\ impl = "page" /\ mounted
    /\ last' = Op("select", track.id, -1, 0, track)
    /\ currentTrack' = track
    /\ currentTrackIndex' = FindIndex(playlist, track.id)
    /\ UNCHANGED <<impl, mounted, playlist, isPlaying, storage, now, urls,
                   revoked, gone>>
    /\ PageEffects

PagePlayNext ==
    /\ impl = "page" /\ mounted
    /\ last' = Op("next", -1, -1, 0, NoTrack)
    /\ IF Len(playlist) = 0
          THEN UNCHANGED <<currentTrack, currentTrackIndex>>
          ELSE LET nextIndex == JsRem(currentTrackIndex + 1, Len(playlist)) IN
                 /\ currentTrack' = At(playlist, nextIndex)
                 /\ currentTrackIndex' = nextIndex
    /\ UNCHANGED <<impl, mounted, playlist, isPlaying, storage, now, urls,
                   revoked, gone>>
    /\ PageEffects

PagePlayPrevious ==
    /\ impl = "page" /\ mounted
    /\ last' = Op("previous", -1, -1, 0, NoTrack)
    /\ IF Len(playlist) = 0
          THEN UNCHANGED <<currentTrack, currentTrackIndex>>
          ELSE LET prevIndex == IF currentTrackIndex = 0
                                   THEN Len(playlist) - 1
                                   ELSE currentTrackIndex - 1 IN
                 /\ prevIndex >= -MaxUnderflow
                 /\ currentTrack' = At(playlist, prevIndex)
                 /\ currentTrackIndex' = prevIndex
    /\ UNCHANGED <<impl, mounted, playlist, isPlaying, storage, now, urls,
                   revoked, gone>>
    /\ PageEffects

\* if (track.url) URL.revokeObjectURL(track.url), for every track
PageClearPlaylist ==
    /\ impl = "page" /\ mounted
    /\ last' = Op("clear", -1, -1, 0, NoTrack)
    /\ revoked' = RevokeAll(playlist)
    /\ playlist' = <<>>
    /\ currentTrack' = NoTrack
    /\ currentTrackIndex' = 0
    /\ storage' = PageSaved(<<>>)
    /\ gone' = gone \cup Elems(playlist)
    /\ UNCHANGED <<impl, mounted, isPlaying, now, urls>>
    /\ PageEffects

-----------------------------------------------------------------------------
(* Home of part_000: currentTrackIndex only; the current track is
   playlist[currentTrackIndex] *)

\* What follows a handler of part_000 before the next event. saves:
\* setPlaylist was called (save effect, uncaught setItem). a: the audio
\* element as the handler left it. The <audio> element is rendered while
\* there is a current track, with its url as src; the auto-play effect (deps
\* currentTrackIndex, playlist) calls load() and, if isPlaying, play(),
\* whose rejection goes to console.error.
HomeEffects(saves, a) ==
    /\ ~thrown
    /\ thrown' = (saves /\ full /\ Len(playlist') > 0)
    /\ \E track \in {At(playlist', currentTrackIndex')} :
       \E rendered \in
             {IF ~Truthy(track) THEN NoAudio
              ELSE IF ~Truthy(At(playlist, currentTrackIndex))
                      THEN Load(NoAudio, track.url)
              ELSE IF track.url # a.src THEN Load(a, track.url)
              ELSE a} :
         \E loaded \in {Load(rendered, rendered.src)} :
           LET runs == /\ saves \/ currentTrackIndex' # currentTrackIndex
                       /\ Len(playlist') > 0
                       /\ Truthy(track) IN
             audio' = IF runs
                         THEN IF isPlaying' THEN Play(loaded) ELSE loaded
                         ELSE rendered
    /\ UNCHANGED <<error, full>>
    /\ UNCHANGED apart

HomeLoad ==
    /\ impl = "home" /\ ~mounted
    /\ last' = Op("load", -1, -1, 0, NoTrack)
    /\ mounted' = TRUE
    /\ playlist' = IF storage.kind = "array" THEN storage.tracks ELSE playlist
    /\ storage' = HookSaved(playlist')
    /\ UNCHANGED <<impl, currentTrack, currentTrackIndex, isPlaying, now, urls,
                   revoked, gone>>
    /\ UNCHANGED <<volume, currentTime>>
    /\ HomeEffects(storage.kind = "array", audio)

\* file.type === 'audio/mpeg' || file.name.endsWith('.mp3')
IsMp3(file) == file.mime = "audio/mpeg" \/ file.ext = ".mp3"

\* id: Date.now() + Math.random(), the pair coded as one number
RandomTracks(k, rand) ==
    [i \in 1..k |-> Track(now * RandRange + rand[i], urls + i)]

HomeHandleFileUpload(files, rand) ==
    /\ impl = "home" /\ mounted
    /\ last' = Op("add", -1, -1, Len(SelectSeq(files, IsMp3)), NoTrack)
    /\ LET mp3Files == SelectSeq(files, IsMp3) IN
         /\ DOMAIN rand = 1..Len(mp3Files)
         /\ urls + Len(mp3Files) <= MaxUrls
         /\ playlist' = playlist \o RandomTracks(Len(mp3Files), rand)
         /\ urls' = urls + Len(mp3Files)
    /\ storage' = HookSaved(playlist')
    /\ UNCHANGED <<impl, mounted, currentTrack, currentTrackIndex, isPlaying, now,
                   revoked, gone>>
    /\ UNCHANGED <<volume, currentTime>>
    /\ HomeEffects(TRUE, audio)

HomeRemoveTrack(index) ==
    /\ impl = "home" /\ mounted
    /\ last' = Op("remove", At(playlist, index).id, index, 0, NoTrack)
    /\ LET newPlaylist == FilterIndex(playlist, index) IN
         /\ playlist' = newPlaylist
         /\ storage' = HookSaved(newPlaylist)
    /\ IF index = currentTrackIndex
          THEN isPlaying' = FALSE /\ currentTrackIndex' = 0
          ELSE IF index < currentTrackIndex
                  THEN currentTrackIndex' = currentTrackIndex - 1 /\ UNCHANGED isPlaying
                  ELSE UNCHANGED <<currentTrackIndex, isPlaying>>
    /\ gone' = gone \cup {At(playlist, index)}
    /\ UNCHANGED <<impl, mounted, currentTrack, now, urls, revoked>>
    /\ UNCHANGED <<volume, currentTime>>
    /\ HomeEffects(TRUE, audio)

HomeSelectTrack(index) ==
    /\ impl = "home" /\ mounted
    /\ last' = Op("select", At(playlist, index).id, index, 0, At(playlist, index))
    /\ currentTrackIndex' = index
    /\ isPlaying' = TRUE
    /\ UNCHANGED <<impl, mounted, playlist, currentTrack, storage, now, urls,
                   revoked, gone>>
    /\ UNCHANGED <<volume, currentTime>>
    /\ HomeEffects(FALSE, audio)

HomePreviousTrack ==
    /\ impl = "home" /\ mounted
    /\ last' = Op("previous", -1, -1, 0, NoTrack)
    /\ currentTrackIndex' = IF currentTrackIndex > 0
                               THEN currentTrackIndex - 1 ELSE currentTrackIndex
    /\ UNCHANGED <<impl, mounted, playlist, currentTrack, isPlaying, storage, now,
                   urls, revoked, gone>>
    /\ UNCHANGED <<volume, currentTime>>
    /\ HomeEffects(FALSE, audio)

HomeNextTrack ==
    /\ impl = "home" /\ mounted
    /\ last' = Op("next", -1, -1, 0, NoTrack)
    /\ currentTrackIndex' = IF currentTrackIndex < Len(playlist) - 1
                               THEN currentTrackIndex + 1 ELSE currentTrackIndex
    /\ UNCHANGED <<impl, mounted, playlist, currentTrack, isPlaying, storage, now,
                   urls, revoked, gone>>
    /\ UNCHANGED <<volume, currentTime>>
    /\ HomeEffects(FALSE, audio)

\* audioRef.current: the <audio> element is there while there is a
\* current track
HomeAudio == Truthy(At(playlist, currentTrackIndex))

\* Nothing without the element or with an empty playlist; else pause() or
\* play().catch(console.error), and setIsPlaying(!isPlaying) either way.
HomeTogglePlayPause ==
    /\ impl = "home" /\ mounted
    /\ last' = Op("toggle", -1, -1, 0, NoTrack)
    /\ UnchangedByPlayback
    /\ UNCHANGED <<currentTrack, currentTrackIndex, volume, currentTime>>
    /\ IF ~HomeAudio \/ Len(playlist) = 0
          THEN /\ UNCHANGED isPlaying
               /\ HomeEffects(FALSE, audio)
          ELSE /\ isPlaying' = ~isPlaying
               /\ HomeEffects(FALSE, IF isPlaying THEN Pause(audio) ELSE Play(audio))

\* newTime = (clickX / width) * duration for a click on the progress bar;
\* audio.currentTime = newTime; setCurrentTime(newTime)
HomeHandleSeek(newTime) ==
    /\ impl = "home" /\ mounted
    /\ HomeAudio
    /\ last' = Op("seek", -1, -1, newTime, NoTrack)
    /\ UnchangedByPlayback
    /\ UNCHANGED <<currentTrack, currentTrackIndex, isPlaying, volume>>
    /\ currentTime' = newTime
    /\ HomeEffects(FALSE, SetCurrentTime(audio, newTime))

\* newVolume = parseFloat(e.target.value); setVolume(newVolume);
\* if (audioRef.current) audio.volume = newVolume
HomeHandleVolumeChange(newVolume) ==
    /\ impl = "home" /\ mounted
    /\ last' = Op("volume", -1, -1, newVolume, NoTrack)
    /\ UnchangedByPlayback
    /\ UNCHANGED <<currentTrack, currentTrackIndex, isPlaying, currentTime>>
    /\ volume' = newVolume
    /\ HomeEffects(FALSE, IF HomeAudio THEN [audio EXCEPT !.volume = newVolume]
                                        ELSE audio)

\* 'ended' is delivered to handleEnded, which the listener effect (deps
\* currentTrackIndex, playlist.length) rebuilds whenever what it reads
\* changes: setIsPlaying(false); the next index unless this is the last.
HomeEnded ==
    /\ impl = "home" /\ mounted
    /\ HomeAudio /\ audio.ended # 0
    /\ last' = Op("ended", -1, -1, 0, NoTrack)
    /\ UnchangedByPlayback
    /\ UNCHANGED <<currentTrack, volume, currentTime>>
    /\ isPlaying' = FALSE
    /\ currentTrackIndex' = IF currentTrackIndex < Len(playlist) - 1
                               THEN currentTrackIndex + 1 ELSE currentTrackIndex
    /\ HomeEffects(FALSE, [audio EXCEPT !.ended = 0])

\* 'timeupdate' is delivered: setCurrentTime(audio.currentTime)
HomeTimeUpdate ==
    /\ impl = "home" /\ mounted
    /\ HomeAudio /\ currentTime # audio.time
    /\ last' = Op("timeupdate", -1, -1, 0, NoTrack)
    /\ UnchangedByPlayback
    /\ UNCHANGED <<currentTrack, currentTrackIndex, isPlaying, volume>>
    /\ currentTime' = audio.time
    /\ HomeEffects(FALSE, audio)

-----------------------------------------------------------------------------
(* PlaylistManager: the playlist is a prop, onPlaylistUpdate hands the new
   one to the parent, which renders the component again with it *)

\* PlaylistManager holds no audio element and no playback state
ManagerEffects ==
    /\ ~thrown
    /\ UNCHANGED <<currentTrack, currentTrackIndex, isPlaying, audio, currentTime,
                   volume, error, thrown, full, validated, restarts, previous,
                   computed>>

\* What no call of handleFileUpload is part of
ManagerAlone == ManagerEffects /\ UNCHANGED uploads

\* The load effect: onPlaylistUpdate(parsedPlaylist) if the key holds JSON
ManagerRead ==
    /\ last' = Op("load", -1, -1, 0, NoTrack)
    /\ mounted' = TRUE
    /\ playlist' = IF storage.kind = "array" THEN storage.tracks ELSE playlist
    /\ UNCHANGED <<impl, storage, now, urls, revoked, gone, isUploading>>
    /\ ManagerAlone

\* The effect at mount
ManagerLoad == impl = "manager" /\ ~mounted /\ ManagerRead

\* The parent renders with another onPlaylistUpdate function: the effect has
\* it as its dependency and runs again
ManagerCallbackChanges == impl = "manager" /\ mounted /\ ManagerRead

\* file.type.startsWith('audio/')
StartsWithAudio(file) ==
    file.mime \in {"audio/mpeg", "audio/x-aiff"} \cup AudioTypes

\* The files the loop gets through: it awaits 'loadedmetadata' of each audio
\* file, a promise that nothing settles if the file gives 'error' instead.
RECURSIVE Reached(_)
Reached(files) ==
    IF files = <<>> THEN <<>>
    ELSE IF StartsWithAudio(Head(files)) /\ ~Head(files).loads THEN <<Head(files)>>
    ELSE <<Head(files)>> \o Reached(Tail(files))

\* savePlaylistToStorage: setItem, then onPlaylistUpdate, in one try
ManagerSaved(newPlaylist) ==
    /\ storage' = IF full THEN storage ELSE Array(newPlaylist)
    /\ playlist' = IF full THEN playlist ELSE newPlaylist

\* handleFileUpload with nothing else happening before its end: a track with
\* an object URL for every audio file, after its metadata arrived; then the
\* playlist with the new tracks is saved.
\* n of the record: the audio files of the batch whose metadata loads.
ManagerHandleFileUpload(files, rand) ==
    /\ impl = "manager" /\ mounted
    /\ last' = Op("add", -1, -1,
                  Len(SelectSeq(files, LAMBDA f : StartsWithAudio(f) /\ f.loads)),
                  NoTrack)
    /\ LET reached == SelectSeq(Reached(files), StartsWithAudio)
           hangs == \E i \in 1..Len(files) :
                        StartsWithAudio(files[i]) /\ ~files[i].loads IN
         /\ DOMAIN rand = 1..Len(reached)
         /\ urls + Len(reached) <= MaxUrls
         /\ urls' = urls + Len(reached)
         /\ isUploading' = hangs
         /\ IF hangs
               THEN UNCHANGED <<playlist, storage>>
               ELSE ManagerSaved(playlist \o RandomTracks(Len(reached), rand))
    /\ UNCHANGED <<impl, mounted, now, revoked, gone>>
    /\ ManagerAlone

\* The files from the first audio file on: the loop passes over the others
RECURSIVE FromAudio(_)
FromAudio(files) ==
    IF files = <<>> \/ StartsWithAudio(Head(files)) THEN files
    ELSE FromAudio(Tail(files))

\* The audio files that calls in flight have yet to come to
Ahead == [i \in 1..Len(uploads) |-> Len(SelectSeq(uploads[i].files, StartsWithAudio))]

RECURSIVE Sum(_)
Sum(s) == IF s = <<>> THEN 0 ELSE Head(s) + Sum(Tail(s))

\* The loop of handleFileUpload from `files` on, in the call that was made
\* when the playlist prop was `base` and that has pushed `newTracks`.  At an
\* audio file it makes the object URL and the track and awaits the file's
\* 'loadedmetadata' (others: the other calls in flight); past the last file
\* it saves [...playlist, ...newTracks], playlist being the prop of the render
\* that made the call, and resets isUploading.
ManagerLoop(base, newTracks, files, rand, uploading, others) ==
    LET rest == FromAudio(files) IN
      IF rest = <<>>
         THEN /\ ManagerSaved(base \o newTracks)
              /\ isUploading' = FALSE
              /\ uploads' = others
              /\ UNCHANGED urls
         ELSE /\ urls' = urls + 1
              /\ uploads' = Append(others,
                                   [base |-> base, newTracks |-> newTracks,
                                    track |-> Track(now * RandRange + rand, urls + 1),
                                    loads |-> Head(rest).loads,
                                    files |-> Tail(rest)])
              /\ isUploading' = uploading
              /\ UNCHANGED <<playlist, storage>>

\* handleFileUpload is called (the input and the drop area stay active while
\* isUploading): it runs up to its first await
ManagerUploadStarts(files, rand) ==
    /\ impl = "manager" /\ mounted
    /\ Len(uploads) < MaxUploads
    /\ urls + Sum(Ahead) + Len(SelectSeq(files, StartsWithAudio)) <= MaxUrls
    /\ last' = Op("upload", -1, -1, Len(SelectSeq(files, StartsWithAudio)), NoTrack)
    /\ ManagerLoop(playlist, <<>>, files, rand, TRUE, uploads)
    /\ UNCHANGED <<impl, mounted, now, revoked, gone>>
    /\ ManagerEffects

\* 'loadedmetadata' of the file that call i awaits: the promise resolves, the
\* track is pushed and the loop goes on.  A file that gives 'error' leaves
\* the promise unsettled: there is no listener for it.
ManagerMetadataLoaded(i, rand) ==
    /\ impl = "manager" /\ mounted
    /\ i \in 1..Len(uploads)
    /\ uploads[i].loads
    /\ last' = Op("metadata", -1, -1, 0, uploads[i].track)
    /\ ManagerLoop(uploads[i].base, Append(uploads[i].newTracks, uploads[i].track),
                   uploads[i].files, rand, isUploading,
                   SubSeq(uploads, 1, i - 1) \o SubSeq(uploads, i + 1, Len(uploads)))
    /\ UNCHANGED <<impl, mounted, now, revoked, gone>>
    /\ ManagerEffects

\* removeTrack: playlist.filter(track => track.id !== trackId), saved
ManagerRemoveTrack(trackId) ==
    /\ impl = "manager" /\ mounted
    /\ last' = Op("remove", trackId, -1, 0, NoTrack)
    /\ ManagerSaved(FilterId(playlist, trackId))
    /\ gone' = gone \cup {t \in Elems(playlist) \ Elems(playlist') : t.id = trackId}
    /\ UNCHANGED <<impl, mounted, now, urls, revoked, isUploading>>
    /\ ManagerAlone

\* clearPlaylist: localStorage.removeItem; onPlaylistUpdate([])
ManagerClearPlaylist ==
    /\ impl = "manager" /\ mounted
    /\ last' = Op("clear", -1, -1, 0, NoTrack)
    /\ storage' = Missing
    /\ playlist' = <<>>
    /\ gone' = gone \cup Elems(playlist)
    /\ UNCHANGED <<impl, mounted, now, urls, revoked, isUploading>>
    /\ ManagerAlone

-----------------------------------------------------------------------------
(* The utilities of PlaylistManager.js *)

\* if (!file || !file.type) return false;
\* audioTypes.includes(file.type) || file.name.toLowerCase().endsWith('.mp3')
isAudioFile(file) ==
    IF file.mime = "" THEN FALSE
    ELSE file.mime \in AudioTypes \/ file.ext = ".mp3"

\* What the promise of validateAudioFile resolves with
validateAudioFile(file) ==
    IF ~isAudioFile(file) THEN InvalidFormat
    ELSE IF file.size > MaxSize THEN TooLarge
    ELSE IF file.loads THEN Valid
    ELSE CouldNotLoad

\* A call of validateAudioFile: past the two checks it creates an object
\* URL, and revokes it in the listener that resolves the promise.
ValidateAudioFile(file) ==
    /\ ~thrown
    /\ last' = Op("validate", -1, -1, 0, NoTrack)
    /\ validated' = [file |-> file, result |-> validateAudioFile(file)]
    /\ IF isAudioFile(file) /\ file.size <= MaxSize
          THEN /\ urls + 1 <= MaxUrls
               /\ urls' = urls + 1
               /\ revoked' = [revoked EXCEPT ![urls + 1] = 1]
          ELSE UNCHANGED <<urls, revoked>>
    /\ UNCHANGED <<impl, mounted, playlist, currentTrack, currentTrackIndex,
                   isPlaying, storage, now, gone, audio, currentTime, volume,
                   error, thrown, full, isUploading, restarts, previous, uploads,
                   computed>>

\* A next index that neither repeats nor wraps
NextOrNone(currentIndex, pl, repeatMode) ==
    IF pl.given /\ currentIndex + 1 < Len(pl.tracks) THEN currentIndex + 1 ELSE -1

\* getNextTrackIndex(currentIndex, playlist, repeatMode = 'none')
getNextTrackIndex(currentIndex, pl, repeatMode) ==
    LET mode == IF repeatMode = "undefined" THEN "none" ELSE repeatMode
        nextIndex == currentIndex + 1 IN
      IF ~pl.given \/ Len(pl.tracks) = 0 THEN -1
      ELSE IF mode = "one" THEN currentIndex
      ELSE IF nextIndex >= Len(pl.tracks) THEN (IF mode = "all" THEN 0 ELSE -1)
      ELSE nextIndex

\* getPreviousTrackIndex(currentIndex, playlist)
getPreviousTrackIndex(currentIndex, pl) ==
    IF ~pl.given \/ Len(pl.tracks) = 0 THEN -1
    ELSE IF currentIndex <= 0 THEN Len(pl.tracks) - 1
    ELSE currentIndex - 1

UnchangedByIndex ==
    UNCHANGED <<impl, mounted, playlist, currentTrack, currentTrackIndex,
                isPlaying, storage, now, urls, revoked, gone, audio, currentTime,
                volume, error, thrown, full, isUploading, validated, restarts,
                previous, uploads, last>>

\* A call of getNextTrackIndex
GetNextTrackIndex(currentIndex, pl, repeatMode) ==
    /\ computed' = [fn |-> "getNextTrackIndex", currentIndex |-> currentIndex,
                    playlist |-> pl, repeatMode |-> repeatMode,
                    result |-> getNextTrackIndex(currentIndex, pl, repeatMode)]
    /\ UnchangedByIndex

\* A call of getPreviousTrackIndex
GetPreviousTrackIndex(currentIndex, pl) ==
    /\ computed' = [fn |-> "getPreviousTrackIndex", currentIndex |-> currentIndex,
                    playlist |-> pl, repeatMode |-> "undefined",
                    result |-> getPreviousTrackIndex(currentIndex, pl)]
    /\ UnchangedByIndex

-----------------------------------------------------------------------------
(* The surroundings *)

\* The element plays on by one step
AudioPlays ==
    /\ mounted /\ ~thrown
    /\ ~audio.paused /\ audio.promise # "pending"
    /\ last' = Op("plays", -1, -1, 0, NoTrack)
    /\ audio' = Advance(audio)
    /\ UNCHANGED <<impl, mounted, playlist, currentTrack, currentTrackIndex,
                   isPlaying, storage, now, urls, revoked, gone, currentTime,
                   volume, error, thrown, full>>
    /\ UNCHANGED apart

\* The storage quota is used up: from now on setItem throws
StorageFills ==
    /\ ~full /\ ~thrown
    /\ last' = Op("full", -1, -1, 0, NoTrack)
    /\ full' = TRUE
    /\ UNCHANGED <<impl, mounted, playlist, currentTrack, currentTrackIndex,
                   isPlaying, storage, now, urls, revoked, gone, audio,
                   currentTime, volume, error, thrown>>
    /\ UNCHANGED apart

\* The URL string of a track outlives the document that created the object
\* URL; what it named does not (url < 0: a string of an earlier session).
Aged(t) == Track(t.id, IF t.url >= 1 THEN -t.url ELSE t.url)

AgedRecord(st) ==
    [st EXCEPT !.tracks = [i \in 1..Len(st.tracks) |-> Aged(st.tracks[i])]]

\* The page is loaded anew: every component starts from its useState
\* defaults, the localStorage record stays.
Restart ==
    /\ mounted /\ restarts < MaxRestarts
    /\ last' = Op("restart", -1, -1, 0, NoTrack)
    /\ restarts' = restarts + 1
    /\ previous' = playlist
    /\ mounted' = FALSE
    /\ playlist' = <<>>
    /\ currentTrack' = NoTrack
    /\ currentTrackIndex' = 0
    /\ isPlaying' = FALSE
    /\ storage' = AgedRecord(storage)
    /\ gone' = {}
    /\ audio' = NoAudio
    /\ currentTime' = 0
    /\ volume' = One
    /\ error' = NoError
    /\ thrown' = FALSE
    /\ isUploading' = FALSE
    /\ uploads' = <<>>
    /\ UNCHANGED <<impl, now, urls, revoked, full, validated, computed>>

-----------------------------------------------------------------------------
(* The callers *)

\* Ids a caller can hold: of the tracks shown, and of tracks that were shown
\* (a list entry that is leaving still takes clicks).
KnownIds == Ids(playlist) \cup {t.id : t \in gone}

\* A track no longer in the playlist
Stale == gone \ Elems(playlist)

\* The operations a caller of useAudioPlayer can invoke
HookNext ==
    \/ HookLoad
    \/ \E n \in 0..MaxBatch : HookAddToPlaylist(n)
    \/ \E id \in KnownIds : HookRemoveFromPlaylist(id)
    \/ HookClearPlaylist
    \/ \E i \in 0..(Len(playlist) - 1) : HookSelectTrack(At(playlist, i), i)
    \/ \E t \in Stale, i \in 0..Len(playlist) : HookSelectTrack(t, i)
    \/ HookNextTrack
    \/ HookPreviousTrack

\* The callbacks Home of pages/index.js hands to its children
PageNext ==
    \/ PageLoad
    \/ \E n \in 0..MaxBatch : PageAddToPlaylist(n)
    \/ \E id \in KnownIds : PageRemoveFromPlaylist(id)
    \/ \E t \in Elems(playlist) \cup Stale : PageSelectTrack(t)
    \/ PagePlayNext
    \/ PagePlayPrevious
    \/ PageClearPlaylist

\* The handlers Home of part_000 binds to its own elements
HomeNext ==
    \/ HomeLoad
    \/ \E files \in Batches :
         \E rand \in [1..Len(SelectSeq(files, IsMp3)) -> 0..(RandRange - 1)] :
           HomeHandleFileUpload(files, rand)
    \/ \E i \in 0..(Len(playlist) - 1) : HomeRemoveTrack(i)
    \/ \E i \in 0..(Len(playlist) - 1) : HomeSelectTrack(i)
    \/ HomePreviousTrack
    \/ HomeNextTrack

Next == Tick \/ HookNext \/ PageNext \/ HomeNext

Spec == Init /\ [][Next]_vars

\* One implementation at a time
InitHook == Init /\ impl = "hook"
NextHook == Tick \/ HookNext
SpecHook == InitHook /\ [][NextHook]_vars

InitPage == Init /\ impl = "page"
NextPage == Tick \/ PageNext
SpecPage == InitPage /\ [][NextPage]_vars

InitHome == Init /\ impl = "home"
NextHome == Tick \/ HomeNext
SpecHome == InitHome /\ [][NextHome]_vars

\* Sessions that start without a record or with one stored track
PlaybackStorage == {Missing, Array(<<Stored1>>)}

\* useAudioPlayer, the transport: every playlist operation, play and pause,
\* and tracks playing to their end
InitHookPlayer == Init /\ impl = "hook" /\ storage \in PlaybackStorage
NextHookPlayer ==
    \/ HookNext
    \/ HookTogglePlayPause
    \/ HookEnded
    \/ HookTimeUpdate
    \/ HookAudioError
    \/ AudioPlays
SpecHookPlayer == InitHookPlayer /\ [][NextHookPlayer]_vars

\* useAudioPlayer, play() and the commands that run before its promise is
\* settled; one call of play() at a time
InitPending == Start({"hook"}, PlaybackStorage)
NextPending ==
    \/ HookLoad
    \/ \E n \in 1..MaxBatch : HookAddToPlaylist(n)
    \/ \E ready \in BOOLEAN : HookPlay(ready)
    \/ AudioCanPlay
    \/ HookPlaySettles
    \/ HookPause
    \/ HookNextTrack
    \/ HookPreviousTrack
    \/ \E i \in 0..(Len(playlist) - 1) : HookSelectTrack(At(playlist, i), i)
SpecPending == InitPending /\ [][NextPending]_vars

\* part_000, the transport
InitHomePlayer == Init /\ impl = "home" /\ storage \in PlaybackStorage
NextHomePlayer ==
    \/ HomeLoad
    \/ \E files \in Batches :
         \E rand \in [1..Len(SelectSeq(files, IsMp3)) -> 0..(RandRange - 1)] :
           HomeHandleFileUpload(files, rand)
    \/ \E i \in 0..(Len(playlist) - 1) : HomeRemoveTrack(i)
    \/ \E i \in 0..(Len(playlist) - 1) : HomeSelectTrack(i)
    \/ HomePreviousTrack
    \/ HomeNextTrack
    \/ HomeTogglePlayPause
    \/ HomeEnded
    \/ HomeTimeUpdate
    \/ AudioPlays
SpecHomePlayer == InitHomePlayer /\ [][NextHomePlayer]_vars

\* Both, the seek and volume controls
InitControls == Init /\ impl \in {"hook", "home"} /\ storage \in PlaybackStorage
NextControls ==
    \/ HookLoad
    \/ \E n \in 0..MaxBatch : HookAddToPlaylist(n)
    \/ HookNextTrack
    \/ HookTogglePlayPause
    \/ \E time \in (-1)..(TrackDuration + 1) : HookSeek(time)
    \/ \E newVolume \in Levels : HookChangeVolume(newVolume)
    \/ HookTimeUpdate
    \/ HomeLoad
    \/ \E files \in Batches :
         \E rand \in [1..Len(SelectSeq(files, IsMp3)) -> 0..(RandRange - 1)] :
           HomeHandleFileUpload(files, rand)
    \/ HomeNextTrack
    \/ HomeTogglePlayPause
    \/ \E newTime \in 0..Duration(audio) : HomeHandleSeek(newTime)
    \/ \E newVolume \in SliderLevels : HomeHandleVolumeChange(newVolume)
    \/ HomeTimeUpdate
    \/ AudioPlays
SpecControls == InitControls /\ [][NextControls]_vars

\* All three, the storage: whatever the key holds at start, loads, inserts,
\* removals and clears, and a quota that runs out
InitStore == InitWith(LoadableStorage)
NextStore ==
    \/ HookLoad
    \/ \E n \in 0..MaxBatch : HookAddToPlaylist(n)
    \/ \E id \in KnownIds : HookRemoveFromPlaylist(id)
    \/ HookClearPlaylist
    \/ PageLoad
    \/ \E n \in 0..MaxBatch : PageAddToPlaylist(n)
    \/ \E id \in KnownIds : PageRemoveFromPlaylist(id)
    \/ PageClearPlaylist
    \/ HomeLoad
    \/ \E files \in Batches :
         \E rand \in [1..Len(SelectSeq(files, IsMp3)) -> 0..(RandRange - 1)] :
           HomeHandleFileUpload(files, rand)
    \/ \E i \in 0..(Len(playlist) - 1) : HomeRemoveTrack(i)
    \/ StorageFills
SpecStore == InitStore /\ [][NextStore]_vars

\* useAudioPlayer, mounted and unmounted
InitTeardown == Start({"hook"}, PlaybackStorage)
NextTeardown ==
    \/ HookLoad
    \/ \E n \in 0..MaxBatch : HookAddToPlaylist(n)
    \/ \E id \in KnownIds : HookRemoveFromPlaylist(id)
    \/ HookClearPlaylist
    \/ HookTogglePlayPause
    \/ HookEnded
    \/ AudioPlays
    \/ HookUnmount
SpecTeardown == InitTeardown /\ [][NextTeardown]_vars

\* All three, across a reload of the page
InitRestart == Start(Impls, PlaybackStorage)
NextRestart ==
    \/ HookLoad
    \/ \E n \in 0..MaxBatch : HookAddToPlaylist(n)
    \/ \E id \in KnownIds : HookRemoveFromPlaylist(id)
    \/ HookClearPlaylist
    \/ PageLoad
    \/ \E n \in 0..MaxBatch : PageAddToPlaylist(n)
    \/ \E id \in KnownIds : PageRemoveFromPlaylist(id)
    \/ PageClearPlaylist
    \/ HomeLoad
    \/ \E files \in Batches :
         \E rand \in [1..Len(SelectSeq(files, IsMp3)) -> 0..(RandRange - 1)] :
           HomeHandleFileUpload(files, rand)
    \/ \E i \in 0..(Len(playlist) - 1) : HomeRemoveTrack(i)
    \/ Restart
SpecRestart == InitRestart /\ [][NextRestart]_vars

\* PlaylistManager under a parent that keeps the playlist
InitManager == Start({"manager"}, InitialStorage)
NextManager ==
    \/ ManagerLoad
    \/ ManagerCallbackChanges
    \/ \E files \in Drops :
         \E rand \in [1..Len(SelectSeq(Reached(files), StartsWithAudio))
                          -> 0..(RandRange - 1)] :
           ManagerHandleFileUpload(files, rand)
    \/ \E id \in KnownIds : ManagerRemoveTrack(id)
    \/ ManagerClearPlaylist
SpecManager == InitManager /\ [][NextManager]_vars

\* PlaylistManager, each call of handleFileUpload step by step
InitUploads == Start({"manager"}, PlaybackStorage)
NextUploads ==
    \/ ManagerLoad
    \/ \E files \in UploadedBatches : \E rand \in 0..(RandRange - 1) :
         ManagerUploadStarts(files, rand)
    \/ \E i \in 1..MaxUploads : \E rand \in 0..(RandRange - 1) :
         ManagerMetadataLoaded(i, rand)
    \/ \E id \in KnownIds : ManagerRemoveTrack(id)
SpecUploads == InitUploads /\ [][NextUploads]_vars

\* The event loop delivers the 'loadedmetadata' of a file that loads
SpecUploadsFair ==
    SpecUploads /\ \A i \in 1..MaxUploads :
                      WF_vars(\E rand \in 0..(RandRange - 1) : ManagerMetadataLoaded(i, rand))

\* The calls of the index utilities
InitIndex == Start({"manager"}, {Missing})
NextIndex ==
    \/ \E currentIndex \in Indexes, pl \in Playlists, repeatMode \in RepeatModes :
         GetNextTrackIndex(currentIndex, pl, repeatMode)
    \/ \E currentIndex \in Indexes, pl \in Playlists :
         GetPreviousTrackIndex(currentIndex, pl)
SpecIndex == InitIndex /\ [][NextIndex]_vars

\* The calls of validateAudioFile
InitValidate == Start({"manager"}, {Missing})
NextValidate == \E file \in AudioFiles : ValidateAudioFile(file)
SpecValidate == InitValidate /\ [][NextValidate]_vars

-----------------------------------------------------------------------------
(* What an observer reads *)

\* "currentIndex is None": there is no current track
NoCurrent == ~Truthy(CurrentTrack)

ValidIndex == currentTrackIndex >= 0 /\ currentTrackIndex < Len(playlist)

UniqueIds ==
    \A i, j \in 1..Len(playlist) : i # j => playlist[i].id # playlist[j].id

\* The object URL u belongs to a track of the playlist
InPlaylist(u) == \E i \in 1..Len(playlist) : playlist[i].url = u

\* Where the last remove found its track in the playlist it started from
\* (-1: nowhere)
RemovedIndex ==
    IF impl = "home" THEN last.index ELSE FindIndex(last.playlist, last.id)

-----------------------------------------------------------------------------
(* The claims *)

\* C1: after the startup load and after any sequence of insert, remove,
\* clear, select, next and previous, there is no current track iff the
\* playlist is empty, and otherwise 0 <= currentIndex < length.
C1_CurrentIndexInvariant ==
    mounted => /\ NoCurrent <=> Len(playlist) = 0
               /\ Len(playlist) > 0 => ValidIndex

\* C2: when remove takes out the track at the current index r, the new
\* current index is min(r, newLength - 1) if tracks remain, and there is no
\* current track if none remains.
C2_RemoveCurrentRebases ==
    last.op = "remove" /\ RemovedIndex >= 0 /\ RemovedIndex = last.currentIndex
        => IF Len(playlist) > 0
              THEN currentTrackIndex = Min(RemovedIndex, Len(playlist) - 1)
              ELSE NoCurrent

\* C3: when remove takes out a track at an index r below the current index,
\* the current index goes down by exactly 1 and the current track stays the
\* track it was.
C3_RemoveBeforeCurrentShifts ==
    last.op = "remove" /\ RemovedIndex >= 0 /\ RemovedIndex < last.currentIndex
        => /\ currentTrackIndex = last.currentIndex - 1
           /\ CurrentTrack = last.current

\* C4: remove(id) with an id that matches no track of the playlist changes
\* neither the playlist nor the current index nor the current track.
C4_RemoveAbsentIsNoOp ==
    last.op = "remove" /\ last.id \notin Ids(last.playlist)
        => /\ playlist = last.playlist
           /\ currentTrackIndex = last.currentIndex
           /\ CurrentTrack = last.current

\* C5: insert appends the new tracks at the end in input order and leaves
\* the existing entries as they were; if the playlist was empty before and
\* is not after, the current index is 0 and the first inserted track is the
\* current track.
C5_InsertAppends ==
    last.op = "add"
        => /\ Len(playlist) = Len(last.playlist) + last.n
           /\ SubSeq(playlist, 1, Len(last.playlist)) = last.playlist
           /\ \A i \in 1..last.n :
                 playlist[Len(last.playlist) + i].url = last.urls + i
           /\ Len(last.playlist) = 0 /\ last.n > 0
                 => currentTrackIndex = 0 /\ CurrentTrack = playlist[1]

\* C6: no two entries of the playlist have the same id, whatever batches
\* were inserted and at whatever clock ticks.
C6_UniqueIds == UniqueIds

\* C7: clear revokes the object URL of every track that was in the playlist,
\* empties the playlist and leaves no current track.
C7_ClearRevokesAll ==
    last.op = "clear"
        => /\ \A t \in Elems(last.playlist) : t.url >= 1 => revoked[t.url] >= 1
           /\ playlist = <<>>
           /\ NoCurrent

\* C8: every object URL created for a track is revoked exactly once, when
\* its track leaves the playlist: not at all while the track is in the
\* playlist, once (never zero times, never twice) after it left.
C8_RevokedExactlyOnce ==
    \A u \in 1..urls : revoked[u] = IF InPlaylist(u) THEN 0 ELSE 1

\* C9: select sets the current index to the position of the matching entry;
\* when no entry matches, the current index and the current track stay as
\* they were, so that select never leaves an index out of range.
C9_SelectMatchesOrNoOp ==
    last.op = "select"
        => IF last.id \in Ids(playlist)
              THEN ValidIndex /\ At(playlist, currentTrackIndex).id = last.id
              ELSE /\ currentTrackIndex = last.currentIndex
                   /\ CurrentTrack = last.current

\* C10: for a playlist of length n > 0, next moves the current index to
\* (currentIndex + 1) mod n and previous to (currentIndex - 1 + n) mod n;
\* for an empty playlist both change nothing.
C10_Moved(delta) ==
    IF Len(playlist) > 0
        THEN currentTrackIndex =
                (last.currentIndex + delta + Len(playlist)) % Len(playlist)
        ELSE currentTrackIndex = last.currentIndex /\ CurrentTrack = last.current

C10_NextPreviousWrap ==
    /\ last.op = "next" => C10_Moved(1)
    /\ last.op = "previous" => C10_Moved(-1)

-----------------------------------------------------------------------------
(* Playback and storage *)

\* A stored element that is a track, and a stored record that is a playlist
IsTrack(t) == t.id >= 0
IsPlaylist(st) == st.kind = "array" /\ \A t \in Elems(st.tracks) : IsTrack(t)

Switches == {"select", "next", "previous"}

\* C11: when 'ended' arrives while a track is playing and the playlist is
\* not empty, the player moves to the next index and goes on playing: the
\* status is playing, and the new track, if it can be played, is not paused.
C11_EndedContinuesPlaying ==
    last.op = "ended" /\ last.playing /\ Len(last.playlist) > 0
        => /\ last.currentIndex < Len(playlist) - 1
                 => currentTrackIndex = last.currentIndex + 1
           /\ isPlaying
           /\ Playable(CurrentTrack.url) => ~audio.paused

\* C12: when 'ended' arrives on the last track (index n - 1), the current
\* index wraps to 0; for a single track it stays 0.
C12_EndedWrapsToFirst ==
    last.op = "ended" /\ last.playing /\ Len(last.playlist) > 0
                     /\ last.currentIndex = Len(last.playlist) - 1
        => currentTrackIndex = 0

\* C13: select, next and previous keep the play intent: the status is
\* playing after the switch iff it was before, and the new track, if it can
\* be played, plays iff the old one was playing.
C13_SwitchKeepsPlayIntent ==
    last.op \in Switches /\ Len(last.playlist) > 0
        => /\ isPlaying = last.playing
           /\ Playable(CurrentTrack.url) => (audio.paused = ~last.playing)

\* C14: togglePlayPause pauses when the status is playing and otherwise
\* attempts to play; when the attempt fails, an error is recorded, the
\* status is not playing and the position is the one it was.
C14_ToggleReportsFailure ==
    last.op = "toggle" /\ Truthy(last.current)
        => IF last.playing
              THEN ~isPlaying /\ audio.paused
              ELSE IF Playable(last.src)
                      THEN isPlaying /\ ~audio.paused
                      ELSE /\ error # NoError
                           /\ ~isPlaying
                           /\ currentTime = last.time

\* C15: seek sets the position shown to the requested one clamped to
\* [0, duration], at once, so that 0 <= position <= duration after a seek.
C15_SeekClamps ==
    last.op = "seek"
        => /\ currentTime = Max(0, Min(last.n, Duration(audio)))
           /\ 0 <= currentTime /\ currentTime <= Duration(audio)

\* C16: a volume change stores the level clamped to [0, 1] (0 for a
\* negative level, 1 for a level above 1) and hands the same value to the
\* audio element; the stored volume and the element's volume are in [0, 1]
\* whatever changes were made.
C16_VolumeClamped ==
    /\ volume >= 0 /\ volume <= One
    /\ audio.volume >= 0 /\ audio.volume <= One
    /\ last.op = "volume"
          => /\ volume = (IF last.n < 0 THEN 0 ELSE IF last.n > One THEN One ELSE last.n)
             /\ impl = "hook" \/ HomeAudio => audio.volume = volume

\* A level above 1 was handed over and 1 was stored and forwarded
C16_Witness ==
    last.op = "volume" /\ last.n > One /\ volume = One /\ audio.volume = One

C18_LoadFallsBackToEmpty ==
    last.op = "load" /\ ~IsPlaylist(last.stored)
        => ~thrown /\ playlist = <<>>

\* C19: the stored record holds no object URL of a track of this session.
C19_SavedWithoutUrl ==
    \A t \in Elems(storage.tracks) : t.url < 1

\* C20: a storage write that fails during an insert or a remove neither
\* undoes the change of the playlist nor lets an error escape.
C20_FailedWriteIsIgnored ==
    last.op \in {"add", "remove"} /\ last.full
        => /\ ~thrown
           /\ last.op = "add" => playlist = last.playlist \o
                                    SubSeq(playlist, Len(last.playlist) + 1, Len(playlist))
                                  /\ Len(playlist) = Len(last.playlist) + last.n
           /\ last.op = "remove" /\ RemovedIndex >= 0
                 => Len(playlist) < Len(last.playlist)

-----------------------------------------------------------------------------
(* The record, ingestion and the state of playback *)

StoredTracks(st) == IF st.kind = "array" THEN st.tracks ELSE <<>>

IdsInOrder(s) == [i \in 1..Len(s) |-> s[i].id]

Mutations == {"add", "remove", "clear"}

\* C21: after an insert, a remove or a clear whose write succeeds, the stored
\* record lists the tracks of the playlist, in order, an empty playlist
\* included.
C21_WrittenOnEveryMutation ==
    last.op \in Mutations /\ ~last.full /\ ~thrown
        => StoredTracks(storage) = playlist

\* C22: the record is read at startup only: every read of the key starts
\* from a component whose mount effects have not run yet.
C22_ReadOnceAtStartup ==
    last.op = "load" => ~last.mounted

\* C23: what is loaded after a reload of the page has the ids of the playlist
\* the session before ended with, in the same order.
C23_RoundTrip ==
    last.op = "load" /\ restarts > 0
        => IdsInOrder(playlist) = IdsInOrder(previous)

\* C24: a file whose metadata loads is accepted if and only if its type is
\* in the allow-list or its name ends in .mp3 (whatever its type, an empty
\* one included), and its size is at most 50 MB.
C24_IngestionPolicy ==
    validated # NotValidated /\ validated.file.loads
        => (validated.result.valid
                <=> /\ validated.file.mime \in AudioTypes \/ validated.file.ext = ".mp3"
                    /\ validated.file.size <= MaxSize)

\* C25: after an upload whose write succeeds the playlist has grown by every
\* acceptable file of the batch, whatever the other files of the batch were.
C25_BatchNotAborted ==
    last.op = "add" /\ ~last.full /\ ~thrown
        => Len(playlist) = Len(last.playlist) + last.n

\* C26: selecting a track of the playlist while an error is shown clears
\* the error, also when the track is the current one.
C26_SelectRecovers ==
    /\ last.op = "select" /\ last.error # NoError
    /\ \E i \in 1..Len(last.playlist) : last.playlist[i] = last.track
    => error = NoError

\* C27: while isPlaying is true the audio element is playing the current
\* track: it has its url as source and is not paused, or it has just reached
\* the end and its 'ended' event is still to be delivered.
C27_PlayingMeansPlaying ==
    isPlaying
        => /\ audio.src = CurrentTrack.url
           /\ ~audio.paused \/ audio.ended = audio.src

\* C28: when a remove or a clear empties the playlist while a track is
\* playing, isPlaying is false afterwards and the element plays no more.
C28_EmptyMeansIdle ==
    /\ last.op \in {"remove", "clear"} /\ last.playing
    /\ Len(last.playlist) > 0 /\ playlist = <<>>
    => ~isPlaying /\ audio.paused

\* C29: the source of the audio element is never the URL of an earlier
\* session, nor a revoked one.
C29_NoDeadHandleLoaded ==
    audio.src # 0 => audio.src >= 1 /\ revoked[audio.src] = 0

\* C30: whenever there is a current track, it is the entry of the playlist at
\* the current index.
C30_SelectionConsistent ==
    Truthy(CurrentTrack)
        => /\ ValidIndex
           /\ At(playlist, currentTrackIndex).id = CurrentTrack.id

-----------------------------------------------------------------------------
(* Errors, teardown, what an operation leaves alone, and what overlaps *)

\* C31: after an 'error' event of the element an error message is shown and
\* isPlaying is false; an error and isPlaying true never hold together.
C31_FailedMeansError ==
    /\ last.op = "error" => error # NoError /\ ~isPlaying
    /\ ~(error # NoError /\ isPlaying)

\* C32: after the unmount every object URL created so far is revoked, and
\* the element is paused with no event left to deliver.
C32_TeardownRevokes ==
    last.op = "unmount"
        => /\ \A u \in 1..urls : revoked[u] >= 1
           /\ audio.paused /\ audio.ended = 0 /\ ~audio.failed

\* C33: a volume change keeps the source of the element, its position, its
\* paused flag, isPlaying and the current track.
C33_VolumeFrame ==
    last.op = "volume"
        => /\ audio.src = last.src
           /\ audio.time = last.position
           /\ audio.paused = last.paused
           /\ isPlaying = last.playing
           /\ CurrentTrack = last.current

\* C34: an insert into a non-empty playlist, and a remove of a track other
\* than the current one, keep the current track, isPlaying, and the source,
\* the position and the paused flag of the element.
C34_MutationFrame ==
    /\ Truthy(last.current)
    /\ \/ last.op = "add" /\ Len(last.playlist) > 0
       \/ last.op = "remove" /\ RemovedIndex >= 0
             /\ At(last.playlist, RemovedIndex) # last.current
    /\ ~thrown
    => /\ CurrentTrack = last.current
       /\ isPlaying = last.playing
       /\ audio.src = last.src
       /\ audio.time = last.position
       /\ audio.paused = last.paused

\* C35: once no call of handleFileUpload is in flight, every track that a
\* call made is in the playlist unless it was removed, and no removed track
\* is in the playlist.
C35_NoLostUpdate ==
    uploads = <<>>
        => /\ \A u \in 1..urls : InPlaylist(u) \/ \E t \in gone : t.url = u
           /\ \A t \in gone : t \notin Elems(playlist)

\* C36: a call of handleFileUpload that awaits metadata comes to its end.
C36_UploadCompletes == (uploads # <<>>) ~> (uploads = <<>> /\ ~isUploading)

\* C37: when the promise of play() has settled, isPlaying is true only if the
\* element plays the current track, whatever ran while the promise was open.
C37_LateCompletionLoses ==
    last.op = "settled" /\ isPlaying
        => ~audio.paused /\ Truthy(currentTrack) /\ audio.src = currentTrack.url

\* C38: on a startup with a stored record of at least one track, nothing has
\* overwritten the record with the empty playlist of the first render by the
\* time the loaded playlist is in memory.
C38_NoEarlyEmptyWrite ==
    last.op = "load" /\ last.stored.kind = "array" /\ Len(last.stored.tracks) > 0
        => last.early # Array(<<>>) /\ last.early = last.stored

C38_Witness ==
    /\ last.op = "load" /\ last.stored.kind = "array" /\ Len(last.stored.tracks) > 0
    /\ impl = "page" /\ playlist = last.stored.tracks /\ last.early = last.stored

\* C39: getNextTrackIndex gives -1 for an empty or missing playlist; otherwise
\* currentIndex for 'one', currentIndex + 1 where that is an index of the
\* playlist, and at the last index 0 for 'all' and -1 for 'none'; from an
\* index of the playlist it gives -1 or an index of the playlist.
C39_NextIndex ==
    computed.fn = "getNextTrackIndex"
        => LET i == computed.currentIndex
               length == Len(computed.playlist.tracks)
               mode == computed.repeatMode
               result == computed.result IN
             IF ~computed.playlist.given \/ length = 0 THEN result = -1
             ELSE /\ mode = "one" => result = i
                  /\ mode # "one" /\ i + 1 \in 0..(length - 1) => result = i + 1
                  /\ mode = "all" /\ i = length - 1 => result = 0
                  /\ mode = "none" /\ i = length - 1 => result = -1
                  /\ i \in 0..(length - 1) => result = -1 \/ result \in 0..(length - 1)

C39_Witness ==
    /\ computed.fn = "getNextTrackIndex" /\ computed.repeatMode = "all"
    /\ Len(computed.playlist.tracks) = MaxLength
    /\ computed.currentIndex = MaxLength - 1 /\ computed.result = 0

=============================================================================
